---- MODULE Spec2Model ----
(***************************************************************************)
(* A model of the game engine of bevy-tetris (src/src/game.rs and          *)
(* src/src/game/*.rs): the Timer, the IdGenerator, the RepeatedAction      *)
(* debounce machine, SmartInput, the block catalog, rotate_block and       *)
(* Game::tick with lock, row removal and spawn.                            *)
(*                                                                         *)
(* A Position (x, y) is the tuple <<x, y>>.  An Option<Point> is a Point   *)
(* record, None being the record NoPoint.  A HashMap<Id, Position> is a    *)
(* function whose domain is the set of its keys.                           *)
(***************************************************************************)
EXTENDS Integers, Sequences, FiniteSets, TLC

(***************************************************************************)
(* Program constants.                                                      *)
(***************************************************************************)
BOARD_WIDTH == 10
BOARD_HEIGHT == 24
WAIT_DURATION == 30
REPEAT_DURATION == 5

(***************************************************************************)
(* Bounds of the model.                                                    *)
(***************************************************************************)
\* ticks explored from every initial state of Spec
MaxTicks == 1

\* calls of RepeatedAction::tick in a behaviour of SpecAction
MaxActionTicks == 101

\* rows that may hold points in the boards of SpecRows, and row-clear steps
\* in a behaviour
MaxRows == 4

MaxClears == 2

\* rotation steps in a behaviour of SpecRotate
MaxRotations == 4

\* calls of the IdGenerator in a behaviour of SpecIds
MaxIds == 100

\* ticks in a behaviour of SpecGravity
MaxGravityTicks == 26

\* ticks in a behaviour of SpecReplay
MaxReplayTicks == 1

Max(a, b) == IF a >= b THEN a ELSE b

SetMax(S) == CHOOSE m \in S : \A n \in S : n <= m

SetMin(S) == CHOOSE m \in S : \A n \in S : m <= n

\* f itself: a function written [x \in S |-> e] is evaluated at once
\* instead of when it is first compared
Now(f) == IF f = f THEN f ELSE f

\* HashMap::remove and HashMap::insert
MapRemove(m, k) == Now([j \in DOMAIN m \ {k} |-> m[j]])

MapInsert(m, k, v) == (k :> v) @@ m

add_positions(a, b) == <<a[1] + b[1], a[2] + b[2]>>

(***************************************************************************)
(* game/blocks.rs: the catalog.                                            *)
(***************************************************************************)
BlockTypes == {"I", "J", "L", "O", "S", "T", "Z"}

BLOCKS ==
    [ I |-> << <<0, 0>>, <<0, 1>>, <<0, 2>>, <<0, 3>> >>,
      J |-> << <<0, 0>>, <<0, 1>>, <<1, 1>>, <<2, 1>> >>,
      L |-> << <<0, 1>>, <<1, 1>>, <<2, 1>>, <<2, 0>> >>,
      O |-> << <<0, 0>>, <<1, 0>>, <<1, 1>>, <<0, 1>> >>,
      S |-> << <<0, 1>>, <<1, 1>>, <<1, 0>>, <<2, 0>> >>,
      T |-> << <<0, 1>>, <<1, 1>>, <<1, 0>>, <<2, 1>> >>,
      Z |-> << <<0, 0>>, <<1, 0>>, <<1, 1>>, <<2, 1>> >> ]

get_block_points(block_type) == BLOCKS[block_type]

(***************************************************************************)
(* game/utils.rs: Timer.  A timer is its tick count.                       *)
(***************************************************************************)
Timer_new == [tick |-> 0]

Timer_tick(t) == [tick |-> t.tick + 1]

Timer_restart(t) == [tick |-> 0]

\* has_elapsed with > for >=
has_elapsed_strict(t, duration) == t.tick > duration

has_elapsed(t, duration) == t.tick >= duration

\* the timer after the call, and the value the call returns
tick_and_restart_if_elapsed(t, duration) ==
    LET t1 == Timer_tick(t)
    IN  IF has_elapsed(t1, duration)
        THEN [timer |-> Timer_restart(t1), elapsed |-> TRUE]
        ELSE [timer |-> t1, elapsed |-> FALSE]

(***************************************************************************)
(* game/utils.rs: IdGenerator.  A call returns next_id and advances it.    *)
(***************************************************************************)
IdGenerator_new == [next_id |-> 1]

\* IdGenerator_call returning the id after the increment
IdGenerator_call_incremented(gen) ==
    [id |-> gen.next_id + 1, gen |-> [next_id |-> gen.next_id + 1]]

\* IdGenerator_call that never advances next_id
IdGenerator_call_stuck(gen) == [id |-> gen.next_id, gen |-> gen]

IdGenerator_call(gen) == [id |-> gen.next_id, gen |-> [next_id |-> gen.next_id + 1]]

(***************************************************************************)
(* game/input.rs: RepeatedAction.                                          *)
(***************************************************************************)
RepeatedAction_new(wait_duration, repeat_duration) ==
    [ state |-> "Inactive", timer |-> Timer_new, active |-> FALSE,
      wait_duration |-> wait_duration, repeat_duration |-> repeat_duration ]

\* RepeatedAction_tick that keeps the state when the key is released
RepeatedAction_tick_keeping_state(a, active) ==
    IF ~active
    THEN [a EXCEPT !.active = FALSE]
    ELSE CASE a.state = "Inactive" ->
                [a EXCEPT !.timer = Timer_restart(a.timer),
                          !.state = "Wait", !.active = TRUE]
           [] a.state = "Wait" ->
                LET r == tick_and_restart_if_elapsed(a.timer, a.wait_duration)
                IN  IF r.elapsed
                    THEN [a EXCEPT !.timer = r.timer, !.state = "Repeat", !.active = TRUE]
                    ELSE [a EXCEPT !.timer = r.timer, !.state = "Wait", !.active = FALSE]
           [] a.state = "Repeat" ->
                LET r == tick_and_restart_if_elapsed(a.timer, a.repeat_duration)
                IN  [a EXCEPT !.timer = r.timer, !.state = "Repeat", !.active = r.elapsed]

RepeatedAction_tick(a, active) ==
    IF ~active
    THEN [a EXCEPT !.state = "Inactive", !.active = FALSE]
    ELSE CASE a.state = "Inactive" ->
                [a EXCEPT !.timer = Timer_restart(a.timer),
                          !.state = "Wait", !.active = TRUE]
           [] a.state = "Wait" ->
                LET r == tick_and_restart_if_elapsed(a.timer, a.wait_duration)
                IN  IF r.elapsed
                    THEN [a EXCEPT !.timer = r.timer, !.state = "Repeat", !.active = TRUE]
                    ELSE [a EXCEPT !.timer = r.timer, !.state = "Wait", !.active = FALSE]
           [] a.state = "Repeat" ->
                LET r == tick_and_restart_if_elapsed(a.timer, a.repeat_duration)
                IN  [a EXCEPT !.timer = r.timer, !.state = "Repeat", !.active = r.elapsed]

(***************************************************************************)
(* game/input.rs: the Input trait (a raw snapshot) and SmartInput.         *)
(***************************************************************************)
RawInputs ==
    [ move_left : BOOLEAN, move_right : BOOLEAN, rotate : BOOLEAN,
      fast_drop : BOOLEAN, instant_drop : BOOLEAN ]

SmartInput_new ==
    [ move_left |-> RepeatedAction_new(WAIT_DURATION, REPEAT_DURATION),
      move_right |-> RepeatedAction_new(WAIT_DURATION, REPEAT_DURATION),
      rotate |-> RepeatedAction_new(WAIT_DURATION, REPEAT_DURATION),
      fast_drop |-> FALSE,
      instant_drop |-> FALSE ]

SmartInput_tick(s, raw) ==
    [ move_left |-> RepeatedAction_tick(s.move_left, raw.move_left),
      move_right |-> RepeatedAction_tick(s.move_right, raw.move_right),
      rotate |-> RepeatedAction_tick(s.rotate, raw.rotate),
      fast_drop |-> raw.fast_drop,
      instant_drop |-> raw.instant_drop ]

(***************************************************************************)
(* game.rs: Point, Block.                                                  *)
(***************************************************************************)
NoPoint == [id |-> 0, origin_block_type |-> "None"]

is_some(p) == p.id # 0

\* Block_new with the offsets given to the points in reverse order
Block_new_reversed(id, block_type, gen) ==
    LET block_points == get_block_points(block_type)
        n == Len(block_points)
        points == [i \in 1..n |->
                     [id |-> gen.next_id + (i - 1), origin_block_type |-> block_type]]
    IN  [ block |-> [ id |-> id,
                      block_type |-> block_type,
                      points |-> points,
                      points_pos |-> [pid \in {points[i].id : i \in 1..n} |->
                                        block_points[n - (pid - gen.next_id)]] ],
          gen |-> [next_id |-> gen.next_id + n] ]

\* the four points get the next four ids, in catalog order
Block_new(id, block_type, gen) ==
    LET block_points == get_block_points(block_type)
        n == Len(block_points)
        points == [i \in 1..n |->
                     [id |-> gen.next_id + (i - 1), origin_block_type |-> block_type]]
    IN  [ block |-> [ id |-> id,
                      block_type |-> block_type,
                      points |-> points,
                      points_pos |-> [pid \in {points[i].id : i \in 1..n} |->
                                        block_points[pid - gen.next_id + 1]] ],
          gen |-> [next_id |-> gen.next_id + n] ]

PosValues(points_pos) == {points_pos[k] : k \in DOMAIN points_pos}

width(block) == SetMax({p[1] : p \in PosValues(block.points_pos)})

height(block) == SetMax({p[2] : p \in PosValues(block.points_pos)})

GameRules_drop_speed == 10

GameRules_fast_drop_speed == Max(GameRules_drop_speed \div 2, 1)

(***************************************************************************)
(* game.rs: Game.  A game is the record of its fields; `rules` holds no    *)
(* state and is the two GameRules operators above.                         *)
(***************************************************************************)
EmptyBoard ==
    Now([y \in 0..(BOARD_HEIGHT - 1) |-> [x \in 0..(BOARD_WIDTH - 1) |-> NoPoint]])

EmptyMap == [k \in {} |-> <<0, 0>>]

SPAWN_POS == <<4, 0>>

Game_new(block_type) ==
    LET g0 == IdGenerator_call(IdGenerator_new)
        b == Block_new(g0.id, block_type, g0.gen)
    IN  [ gen_id |-> b.gen,
          input |-> SmartInput_new,
          points_pos |-> EmptyMap,
          board |-> EmptyBoard,
          active_block |-> b.block,
          active_block_pos |-> SPAWN_POS,
          drop_timer |-> Timer_new ]

\* block_points is the set of local positions the iterator yields
is_block_collides(board, block_points, block_pos) ==
    \E point_pos \in block_points :
        LET p == add_positions(block_pos, point_pos)
        IN  is_some(board[p[2]][p[1]])

spawn_block(g, block_type) ==
    LET g0 == IdGenerator_call(g.gen_id)
        b == Block_new(g0.id, block_type, g0.gen)
    IN  [g EXCEPT !.gen_id = b.gen,
                  !.active_block = b.block,
                  !.active_block_pos = SPAWN_POS]

\* lock_points without the assertion: a point already in the cell is
\* overwritten
RECURSIVE lock_points_overwriting(_, _, _, _)
lock_points_overwriting(g, block_pos, i, st) ==
    IF i > Len(g.active_block.points)
    THEN st
    ELSE LET point == g.active_block.points[i]
             p == add_positions(block_pos, g.active_block.points_pos[point.id])
         IN  lock_points_overwriting(g, block_pos, i + 1,
                 [ board |-> [st.board EXCEPT ![p[2]][p[1]] = point],
                   points_pos |-> MapInsert(st.points_pos, point.id, p),
                   ok |-> TRUE ])

\* the loop over active_block.points(), from point i on; `ok` turns FALSE
\* when the assertion fails, the writes made before it kept
RECURSIVE lock_points(_, _, _, _)
lock_points(g, block_pos, i, st) ==
    IF i > Len(g.active_block.points)
    THEN st
    ELSE LET point == g.active_block.points[i]
             p == add_positions(block_pos, g.active_block.points_pos[point.id])
             x == p[1]
             y == p[2]
         IN  IF is_some(st.board[y][x])
             THEN [st EXCEPT !.ok = FALSE]
             ELSE lock_points(g, block_pos, i + 1,
                      [ board |-> [st.board EXCEPT ![y][x] = point],
                        points_pos |-> MapInsert(st.points_pos, point.id, <<x, y>>),
                        ok |-> TRUE ])

lock_active_block_to_board(g, block_pos) ==
    lock_points(g, block_pos, 1,
                [board |-> g.board, points_pos |-> g.points_pos, ok |-> TRUE])

\* row_filled with any() for all()
row_filled_any(board, y) == \E x \in 0..(BOARD_WIDTH - 1) : is_some(board[y][x])

row_filled(board, y) == \A x \in 0..(BOARD_WIDTH - 1) : is_some(board[y][x])

\* find_filled_rows that stops at the first filled row
find_filled_rows_first_only(board) ==
    LET filled == {y \in 0..(BOARD_HEIGHT - 1) : row_filled(board, y)}
    IN  [i \in 1..(IF filled = {} THEN 0 ELSE 1) |-> SetMin(filled)]

\* the rows pushed by the loop over y in 0..BOARD_HEIGHT-1: the filled rows,
\* in increasing y
find_filled_rows(board) ==
    LET filled == {y \in 0..(BOARD_HEIGHT - 1) : row_filled(board, y)}
    IN  [i \in 1..Cardinality(filled) |->
           CHOOSE y \in filled : Cardinality({z \in filled : z < y}) = i - 1]

\* the points of row y, in increasing x
RowPoints(board, y) ==
    SelectSeq([i \in 1..BOARD_WIDTH |-> board[y][i - 1]], is_some)

EmptyRow == [x \in 0..(BOARD_WIDTH - 1) |-> NoPoint]

RECURSIVE MapRemoveAll(_, _)
MapRemoveAll(m, points) ==
    IF points = <<>> THEN m
    ELSE MapRemoveAll(MapRemove(m, Head(points).id), Tail(points))

\* remove_row_cells without `self.points_pos.remove(&p.id)`
remove_row_cells_keep_map(st, y) ==
    LET taken == RowPoints(st.board, y)
    IN  [st EXCEPT !.board = [st.board EXCEPT ![y] = EmptyRow],
                   !.removed_points = st.removed_points \o taken]

\* remove_row_cells that puts the points of row y before those pushed so far
remove_row_cells_in_front(st, y) ==
    LET taken == RowPoints(st.board, y)
    IN  [st EXCEPT !.board = [st.board EXCEPT ![y] = EmptyRow],
                   !.points_pos = MapRemoveAll(st.points_pos, taken),
                   !.removed_points = taken \o st.removed_points]

\* the inner loop of a filled row: every point of row y is taken, removed
\* from the map and pushed, in increasing x
remove_row_cells(st, y) ==
    LET taken == RowPoints(st.board, y)
    IN  [st EXCEPT !.board = [st.board EXCEPT ![y] = EmptyRow],
                   !.points_pos = MapRemoveAll(st.points_pos, taken),
                   !.removed_points = st.removed_points \o taken]

\* drop_row_cells without `self.points_pos.insert(p.id, (x, y + drop))`
drop_row_cells_grid_only(st, y) ==
    LET row == st.board[y]
        moved == {x \in 0..(BOARD_WIDTH - 1) : is_some(row[x])}
    IN  [st EXCEPT !.board = [st.board EXCEPT
                                 ![y] = EmptyRow,
                                 ![y + st.drop] =
                                     [x \in 0..(BOARD_WIDTH - 1) |->
                                        IF x \in moved THEN row[x]
                                        ELSE st.board[y + st.drop][x]]]]

\* drop_row_cells putting every point one row lower, not st.drop rows
drop_row_cells_by_one(st, y) ==
    LET row == st.board[y]
        moved == {x \in 0..(BOARD_WIDTH - 1) : is_some(row[x])}
    IN  [st EXCEPT !.board = [st.board EXCEPT
                                 ![y] = EmptyRow,
                                 ![y + 1] =
                                     [x \in 0..(BOARD_WIDTH - 1) |->
                                        IF x \in moved THEN row[x]
                                        ELSE st.board[y + 1][x]]],
                   !.points_pos =
                       Now([k \in DOMAIN st.points_pos |->
                              IF \E x \in moved : row[x].id = k
                              THEN <<CHOOSE x \in moved : row[x].id = k, y + 1>>
                              ELSE st.points_pos[k]])]

\* the inner loop of a row that is kept: every point of row y is taken and
\* put st.drop rows lower, in the grid and in the map
drop_row_cells(st, y) ==
    LET row == st.board[y]
        moved == {x \in 0..(BOARD_WIDTH - 1) : is_some(row[x])}
    IN  [st EXCEPT !.board = [st.board EXCEPT
                                 ![y] = EmptyRow,
                                 ![y + st.drop] =
                                     [x \in 0..(BOARD_WIDTH - 1) |->
                                        IF x \in moved THEN row[x]
                                        ELSE st.board[y + st.drop][x]]],
                   !.points_pos =
                       Now([k \in DOMAIN st.points_pos |->
                              IF \E x \in moved : row[x].id = k
                              THEN <<CHOOSE x \in moved : row[x].id = k, y + st.drop>>
                              ELSE st.points_pos[k]])]

\* the outer loop, y from BOARD_HEIGHT - 1 down to 0
RECURSIVE remove_rows_loop(_, _, _)
remove_rows_loop(st, rows, y) ==
    IF y < 0 THEN st
    ELSE IF st.i > 0 /\ rows[st.i] = y
         THEN LET st1 == remove_row_cells(st, y)
              IN  remove_rows_loop([st1 EXCEPT !.i = st.i - 1, !.drop = st.drop + 1],
                                   rows, y - 1)
         ELSE IF st.drop > 0
              THEN remove_rows_loop(drop_row_cells(st, y), rows, y - 1)
              ELSE remove_rows_loop(st, rows, y - 1)

\* the loop at its end: the board and map after the call, and the Vec<Point>
\* it returns (removed_points)
remove_rows(board, points_pos, rows) ==
    remove_rows_loop(
        [ board |-> board, points_pos |-> points_pos,
          removed_points |-> <<>>, drop |-> 0, i |-> Len(rows) ],
        rows, BOARD_HEIGHT - 1)

(***************************************************************************)
(* game/rotate.rs: rotate_block.  The result is None, or Some of the new   *)
(* local positions and the new anchor.  check_collision is the closure     *)
(* Game::tick passes, over the game's board.                               *)
(***************************************************************************)
None == [some |-> FALSE]

SeqValues(s) == {s[i] : i \in 1..Len(s)}

\* rotate_candidate that keeps the anchor's column and raises it by one row
rotate_candidate_raised(block, block_pos) ==
    LET block_w == width(block)
        block_h == height(block)
        cx == block_w \div 2
        cy == block_h \div 2
        points == block.points
        rot_points == [i \in 1..Len(points) |->
                         LET point_pos == block.points_pos[points[i].id]
                             x == point_pos[1] - cx
                             y == point_pos[2] - cy
                         IN  <<(-y) + cx, x + cy>>]
        min_x == SetMin({p[1] : p \in SeqValues(rot_points)})
        min_y == SetMin({p[2] : p \in SeqValues(rot_points)})
    IN  [ rot_piece_pos |-> <<block_pos[1], block_pos[2] - 1>>,
          rot_points |-> [i \in 1..Len(points) |->
                            <<rot_points[i][1] - min_x, rot_points[i][2] - min_y>>] ]

\* the first half of rotate_block: the rotated points, normalised, and the
\* placement rot_piece_pos (signed) of the rotated piece
rotate_candidate(block, block_pos) ==
    LET block_w == width(block)
        block_h == height(block)
        cx == block_w \div 2
        cy == block_h \div 2
        points == block.points
        rot_points == [i \in 1..Len(points) |->
                         LET point_pos == block.points_pos[points[i].id]
                             x == point_pos[1] - cx
                             y == point_pos[2] - cy
                         IN  <<(-y) + cx, x + cy>>]
        min_x == SetMin({p[1] : p \in SeqValues(rot_points)})
        min_y == SetMin({p[2] : p \in SeqValues(rot_points)})
    IN  [ rot_piece_pos |-> <<block_pos[1] + min_x, block_pos[2] + min_y>>,
          rot_points |-> [i \in 1..Len(points) |->
                            <<rot_points[i][1] - min_x, rot_points[i][2] - min_y>>] ]

\* check_collision with the `!` of the closure dropped
check_collision_inverted(board, block_points, block_pos) ==
    is_block_collides(board, block_points, block_pos)

check_collision(board, block_points, block_pos) ==
    ~is_block_collides(board, block_points, block_pos)

\* rotate_checked with a bounds test that also keeps the rotated piece out
\* of the last column and the last row
rotate_checked_tight(block, board, c) ==
    IF \/ c.rot_piece_pos[1] < 0
       \/ c.rot_piece_pos[1] + height(block) >= BOARD_WIDTH - 1
       \/ c.rot_piece_pos[2] < 0
       \/ c.rot_piece_pos[2] + width(block) >= BOARD_HEIGHT - 1
    THEN None
    ELSE IF ~check_collision(board, SeqValues(c.rot_points), c.rot_piece_pos)
         THEN None
         ELSE [ some |-> TRUE,
                points_pos |->
                    [k \in {block.points[i].id : i \in 1..Len(block.points)} |->
                       c.rot_points[CHOOSE j \in 1..Len(block.points) :
                                       block.points[j].id = k]],
                block_pos |-> c.rot_piece_pos ]

\* rotate_checked that hands the rotated positions to the points in reverse
\* order
rotate_checked_reversed(block, board, c) ==
    IF \/ c.rot_piece_pos[1] < 0
       \/ c.rot_piece_pos[1] + height(block) >= BOARD_WIDTH
       \/ c.rot_piece_pos[2] < 0
       \/ c.rot_piece_pos[2] + width(block) >= BOARD_HEIGHT
    THEN None
    ELSE IF ~check_collision(board, SeqValues(c.rot_points), c.rot_piece_pos)
         THEN None
         ELSE [ some |-> TRUE,
                points_pos |->
                    [k \in {block.points[i].id : i \in 1..Len(block.points)} |->
                       c.rot_points[Len(block.points) + 1
                                     - (CHOOSE j \in 1..Len(block.points) :
                                           block.points[j].id = k)]],
                block_pos |-> c.rot_piece_pos ]

\* rotate_checked that hands the rotated positions of the first three
\* points on in a circle: each of them gets the position of the next
rotate_checked_cycled(block, board, c) ==
    IF \/ c.rot_piece_pos[1] < 0
       \/ c.rot_piece_pos[1] + height(block) >= BOARD_WIDTH
       \/ c.rot_piece_pos[2] < 0
       \/ c.rot_piece_pos[2] + width(block) >= BOARD_HEIGHT
    THEN None
    ELSE IF ~check_collision(board, SeqValues(c.rot_points), c.rot_piece_pos)
         THEN None
         ELSE [ some |-> TRUE,
                points_pos |->
                    [k \in {block.points[i].id : i \in 1..Len(block.points)} |->
                       LET j == CHOOSE i \in 1..Len(block.points) :
                                   block.points[i].id = k
                       IN  c.rot_points[IF j > 3 THEN j ELSE (j % 3) + 1]],
                block_pos |-> c.rot_piece_pos ]

\* rotate_checked without the bounds test: a rotated piece that leaves
\* the board is accepted
rotate_checked_unbounded(block, board, c) ==
    IF \/ c.rot_piece_pos[1] < 0
       \/ c.rot_piece_pos[1] + height(block) >= BOARD_WIDTH
       \/ c.rot_piece_pos[2] < 0
       \/ c.rot_piece_pos[2] + width(block) >= BOARD_HEIGHT
    THEN [ some |-> TRUE,
           points_pos |->
               [k \in {block.points[i].id : i \in 1..Len(block.points)} |->
                  c.rot_points[CHOOSE j \in 1..Len(block.points) :
                                  block.points[j].id = k]],
           block_pos |-> c.rot_piece_pos ]
    ELSE IF ~check_collision(board, SeqValues(c.rot_points), c.rot_piece_pos)
         THEN None
         ELSE [ some |-> TRUE,
                points_pos |->
                    [k \in {block.points[i].id : i \in 1..Len(block.points)} |->
                       c.rot_points[CHOOSE j \in 1..Len(block.points) :
                                       block.points[j].id = k]],
                block_pos |-> c.rot_piece_pos ]

\* the second half of rotate_block, on the candidate c
rotate_checked(block, board, c) ==
    IF \/ c.rot_piece_pos[1] < 0
       \/ c.rot_piece_pos[1] + height(block) >= BOARD_WIDTH
       \/ c.rot_piece_pos[2] < 0
       \/ c.rot_piece_pos[2] + width(block) >= BOARD_HEIGHT
    THEN None
    ELSE IF ~check_collision(board, SeqValues(c.rot_points), c.rot_piece_pos)
         THEN None
         ELSE [ some |-> TRUE,
                points_pos |->
                    [k \in {block.points[i].id : i \in 1..Len(block.points)} |->
                       c.rot_points[CHOOSE j \in 1..Len(block.points) :
                                       block.points[j].id = k]],
                block_pos |-> c.rot_piece_pos ]

rotate_block(block, block_pos, board) ==
    rotate_checked(block, board, rotate_candidate(block, block_pos))

(***************************************************************************)
(* game.rs: Game::tick, step by step.  Each step takes and returns the     *)
(* pair of the local block_pos and the game.                               *)
(***************************************************************************)
\* move_left_step without the call of is_block_collides
move_left_step_unchecked(g, block_pos) ==
    IF g.input.move_left.active /\ block_pos[1] > 0
    THEN <<block_pos[1] - 1, block_pos[2]>>
    ELSE block_pos

move_left_step(g, block_pos) ==
    IF g.input.move_left.active
    THEN IF /\ block_pos[1] > 0
            /\ ~is_block_collides(g.board, PosValues(g.active_block.points_pos),
                                  <<block_pos[1] - 1, block_pos[2]>>)
         THEN <<block_pos[1] - 1, block_pos[2]>>
         ELSE block_pos
    ELSE block_pos

\* move_right_step with BOARD_WIDTH - 2 for BOARD_WIDTH - 1
move_right_step_short(g, block_pos) ==
    IF g.input.move_right.active
    THEN IF /\ block_pos[1] + width(g.active_block) < BOARD_WIDTH - 2
            /\ ~is_block_collides(g.board, PosValues(g.active_block.points_pos),
                                  <<block_pos[1] + 1, block_pos[2]>>)
         THEN <<block_pos[1] + 1, block_pos[2]>>
         ELSE block_pos
    ELSE block_pos

move_right_step(g, block_pos) ==
    IF g.input.move_right.active
    THEN IF /\ block_pos[1] + width(g.active_block) < BOARD_WIDTH - 1
            /\ ~is_block_collides(g.board, PosValues(g.active_block.points_pos),
                                  <<block_pos[1] + 1, block_pos[2]>>)
         THEN <<block_pos[1] + 1, block_pos[2]>>
         ELSE block_pos
    ELSE block_pos

\* what Game::tick does with the result `rot` of rotate_block
rotate_applied(g, block_pos, rot) ==
    IF rot.some
    THEN [ game |-> [g EXCEPT !.active_block.points_pos = rot.points_pos],
           block_pos |-> rot.block_pos, rotated |-> TRUE ]
    ELSE [ game |-> g, block_pos |-> block_pos, rotated |-> FALSE ]

\* the rotation step: the game and the local block_pos after it, and
\* whether rotate_block returned Some
rotate_step(g, block_pos) ==
    rotate_applied(g, block_pos,
                   IF g.input.rotate.active
                   THEN rotate_block(g.active_block, block_pos, g.board)
                   ELSE None)

\* the game with the result `rm` of remove_rows, and the points removed
rows_removed(g, rm) ==
    [ game |-> [g EXCEPT !.board = rm.board, !.points_pos = rm.points_pos],
      removed_points |-> rm.removed_points ]

\* the row-clear step: find_filled_rows, then remove_rows
clear_rows(g) ==
    rows_removed(g, remove_rows(g.board, g.points_pos, find_filled_rows(g.board)))

\* the changes pushed for the points removed
removed_changes(removed_points) ==
    [i \in 1..Len(removed_points) |->
       [kind |-> "PointRemoved", id |-> removed_points[i].id]]

\* drop_speed without the fast drop
drop_speed_never_fast(g) == GameRules_drop_speed

\* drop_speed that lets the block fall on every tick while instant_drop is set
drop_speed_instant(g) ==
    IF g.input.instant_drop THEN 1
    ELSE IF g.input.fast_drop THEN GameRules_fast_drop_speed
    ELSE GameRules_drop_speed

drop_speed(g) ==
    IF g.input.fast_drop THEN GameRules_fast_drop_speed ELSE GameRules_drop_speed

must_lock(g, block_pos) ==
    \/ block_pos[2] + height(g.active_block) = BOARD_HEIGHT - 1
    \/ is_block_collides(g.board, PosValues(g.active_block.points_pos),
                         <<block_pos[1], block_pos[2] + 1>>)

\* The steps of Game::tick pass on a record st: the game, and the local
\* block_pos after each step (pos_start on entry, pos_left, pos_right,
\* pos_rotate), whether the rotation was made, whether the drop timer
\* elapsed, and whether the block must lock.
tick_input(g, raw) ==
    [ game |-> [g EXCEPT !.input = SmartInput_tick(g.input, raw)],
      pos_start |-> g.active_block_pos, pos_left |-> g.active_block_pos,
      pos_right |-> g.active_block_pos, pos_rotate |-> g.active_block_pos,
      rotated |-> FALSE, elapsed |-> FALSE, lock |-> FALSE ]

tick_move_left(st) ==
    [st EXCEPT !.pos_left = move_left_step(st.game, st.pos_start)]

tick_move_right(st) ==
    [st EXCEPT !.pos_right = move_right_step(st.game, st.pos_left)]

tick_rotated(st, rot) ==
    [st EXCEPT !.game = rot.game, !.pos_rotate = rot.block_pos,
               !.rotated = rot.rotated]

\* tick_rotate that rotates about the anchor from before the horizontal move
tick_rotate_from_start(st) ==
    tick_rotated(st, rotate_step(st.game, st.pos_start))

tick_rotate(st) == tick_rotated(st, rotate_step(st.game, st.pos_right))

tick_timed(st, t) ==
    [st EXCEPT !.game.drop_timer = t.timer, !.elapsed = t.elapsed]

tick_drop_timer(st) ==
    tick_timed(st, tick_and_restart_if_elapsed(st.game.drop_timer,
                                               drop_speed(st.game)))

tick_lock_test(st) ==
    [st EXCEPT !.lock = st.elapsed /\ must_lock(st.game, st.pos_rotate)]

tick_steps(g, raw) ==
    tick_lock_test(tick_drop_timer(tick_rotate(tick_move_right(
        tick_move_left(tick_input(g, raw))))))

\* the intermediate values of a call, kept for the properties
StepsOf(st) ==
    [ pos_start |-> st.pos_start, pos_left |-> st.pos_left,
      pos_right |-> st.pos_right, rotated |-> st.rotated,
      pos_rotate |-> st.pos_rotate, elapsed |-> st.elapsed, lock |-> st.lock ]

\* after find_filled_rows and remove_rows: the call goes on to spawn_block
tick_cleared(st, locked_board, cl) ==
    [ game |-> cl.game,
      changes |-> <<[kind |-> "BlockLocked", id |-> 0]>>
                  \o removed_changes(cl.removed_points),
      panicked |-> FALSE, spawn |-> TRUE,
      locked_board |-> locked_board, steps |-> StepsOf(st) ]

\* after lock_active_block_to_board, whose result is lk
tick_locked(st, lk) ==
    IF ~lk.ok
    THEN [ game |-> [st.game EXCEPT !.board = lk.board,
                                    !.points_pos = lk.points_pos],
           changes |-> <<>>, panicked |-> TRUE, spawn |-> FALSE,
           locked_board |-> lk.board, steps |-> StepsOf(st) ]
    ELSE tick_cleared(st, lk.board,
                      clear_rows([st.game EXCEPT !.board = lk.board,
                                                 !.points_pos = lk.points_pos]))

\* the branch on the drop timer and the lock condition
tick_drop(st) ==
    IF st.lock
    THEN tick_locked(st, lock_active_block_to_board(st.game, st.pos_rotate))
    ELSE [ game |-> [st.game EXCEPT !.active_block_pos =
                        IF st.elapsed
                        THEN <<st.pos_rotate[1], st.pos_rotate[2] + 1>>
                        ELSE st.pos_rotate],
           changes |-> <<>>, panicked |-> FALSE, spawn |-> FALSE,
           locked_board |-> EmptyBoard, steps |-> StepsOf(st) ]

\* Game::tick up to the call of spawn_block.  The result holds the game at
\* that point, the changes pushed so far, whether the assertion of
\* lock_active_block_to_board failed (then the call panics and returns
\* nothing), whether spawn_block is called next, the board just after the
\* lock, and the intermediate values of the call.
tick_to_spawn(g, raw) == tick_drop(tick_steps(g, raw))

\* tick_spawn without `changes.push(TickChange::NewBlock)`
tick_spawn_without_NewBlock(r, block_type) ==
    IF r.spawn
    THEN [r EXCEPT !.game = spawn_block(r.game, block_type)]
    ELSE r

\* the end of the lock branch: spawn_block, then the NewBlock change
tick_spawn(r, block_type) ==
    IF r.spawn
    THEN [r EXCEPT !.game = spawn_block(r.game, block_type),
                   !.changes = Append(r.changes, [kind |-> "NewBlock", id |-> 0])]
    ELSE r

\* The whole of Game::tick.  block_type is what get_random_block() returns
\* when spawn_block is called.
tick(g, raw, block_type) == tick_spawn(tick_to_spawn(g, raw), block_type)

(***************************************************************************)
(* The caller (src/src/main.rs, the `tick` system): one Game::tick per     *)
(* frame with the raw snapshot of that frame.  The operators below run     *)
(* Game::tick over a given sequence of snapshots; they build the states    *)
(* the game is in after such a run.                                        *)
(***************************************************************************)
Raw(l, r, rot, fd) ==
    [ move_left |-> l, move_right |-> r, rotate |-> rot,
      fast_drop |-> fd, instant_drop |-> FALSE ]

NoKeys == Raw(FALSE, FALSE, FALSE, FALSE)

KeyLeft == Raw(TRUE, FALSE, FALSE, FALSE)

KeyRight == Raw(FALSE, TRUE, FALSE, FALSE)

KeyRotate == Raw(FALSE, FALSE, TRUE, FALSE)

KeyDown == Raw(FALSE, FALSE, FALSE, TRUE)

\* n taps of a key: pressed on one frame, released on the next
RECURSIVE Taps(_, _)
Taps(raw, n) == IF n = 0 THEN <<>> ELSE <<raw, NoKeys>> \o Taps(raw, n - 1)

\* the game after the frames `raws`; block_type is the type of any spawn.
\* PlayOn goes on from the result r of a call, unless it panicked.
RECURSIVE Play(_, _, _)
RECURSIVE PlayOn(_, _, _)
Play(g, raws, block_type) ==
    IF raws = <<>> THEN g
    ELSE PlayOn(tick(g, Head(raws), block_type), Tail(raws), block_type)

PlayOn(r, raws, block_type) ==
    IF r.panicked THEN r.game ELSE Play(r.game, raws, block_type)

\* fast-drop held until the next such frame makes the drop timer elapse
RECURSIVE FallToElapse(_)
FallToElapse(g) ==
    IF has_elapsed(Timer_tick(g.drop_timer), GameRules_fast_drop_speed)
    THEN g
    ELSE FallToElapse(tick_to_spawn(g, KeyDown).game)

\* fast-drop held until the next such frame locks the block; FallOn goes on
\* from a game g1 whose drop timer elapses on the next such frame
RECURSIVE FallToLock(_)
RECURSIVE FallOn(_)
FallToLock(g) == FallOn(FallToElapse(g))

FallOn(g1) ==
    IF must_lock(g1, g1.active_block_pos)
    THEN g1
    ELSE FallToLock(tick_to_spawn(g1, KeyDown).game)

\* In Land and LockNow the test g = g makes the evaluation of g come first,
\* before that of the frames after it.

\* the frames `raws`, then fast-drop held up to the frame before the lock
Land(g, raws) == IF g = g THEN FallToLock(Play(g, raws, "I")) ELSE g

\* the locking frame: fast-drop held, the next block of type block_type
LockNow(g, block_type) == IF g = g THEN tick(g, KeyDown, block_type).game ELSE g

\* the active block taken to the floor by `raws` and locked
Drop(g, raws, block_type) == LockNow(Land(g, raws), block_type)

(***************************************************************************)
(* Games reached from Game::new, used as starting points.                  *)
(***************************************************************************)
RotateFirst == Taps(KeyRotate, 1)

\* a block of each type taken to the left wall, and to the right wall
AtLeftWall(block_type) == Play(Game_new(block_type), Taps(KeyLeft, 4), "I")

AtRightWall(block_type) == Play(Game_new(block_type), Taps(KeyRight, 5), "I")

\* a block one column away from the right wall
NearRightWall(block_type) ==
    Play(Game_new(block_type),
         Taps(KeyRight, 4 - width(Game_new(block_type).active_block)), "I")

\* the first block one frame before it locks on the floor
OnFloor(block_type) == Land(Game_new(block_type), <<>>)

\* the same for an I rotated once, which lies in row 23
LyingOnFloor == Land(Game_new("I"), RotateFirst)

\* O blocks side by side in rows 22 and 23, an I standing on the first; the
\* last O, in columns 8 and 9, fills both rows
Fill2 == Drop(Drop(Game_new("O"), Taps(KeyLeft, 4), "O"), Taps(KeyLeft, 2), "O")

Fill4 == Drop(Drop(Fill2, <<>>, "O"), Taps(KeyRight, 2), "I")

FillBeside == Land(Fill2, <<>>)

FillLast == Land(Drop(Fill4, Taps(KeyLeft, 4), "O"), Taps(KeyRight, 4))

\* lying I blocks: row 23 holds columns 0..7, row 22 holds columns 0..3 and
\* 6..9; the O falling in columns 4 and 5 fills row 22 and not row 23
Gap2 ==
    Drop(Drop(Game_new("I"), RotateFirst \o Taps(KeyLeft, 2), "I"),
         RotateFirst \o Taps(KeyRight, 2), "I")

Gap4 ==
    Drop(Drop(Gap2, RotateFirst \o Taps(KeyLeft, 2), "I"),
         RotateFirst \o Taps(KeyRight, 4), "O")

GapLast == Land(Gap4, <<>>)

\* standing I blocks dropped without a key fill column 4 up to row 0
Tower5 ==
    Drop(Drop(Drop(Drop(Drop(Game_new("I"), <<>>, "I"), <<>>, "I"),
                   <<>>, "I"), <<>>, "I"), <<>>, "I")

\* the sixth I one frame before it locks in rows 0..3
TowerTop == Land(Tower5, <<>>)

\* the block spawned after it, one frame before its drop timer elapses
TowerOver(block_type) == Land(LockNow(TowerTop, block_type), <<>>)

InitGames ==
    {Game_new(t) : t \in BlockTypes}
        \cup {AtLeftWall(t) : t \in BlockTypes}
        \cup {AtRightWall(t) : t \in BlockTypes}
        \cup {NearRightWall(t) : t \in {"I", "O", "T"}}
        \cup {OnFloor(t) : t \in BlockTypes}
        \cup {LyingOnFloor, FillBeside, FillLast, GapLast, TowerTop}
        \cup {TowerOver(t) : t \in {"I", "O", "T"}}

(***************************************************************************)
(* The state: the fields of Game; what the last call of Game::tick         *)
(* returned (changes) and whether it panicked (status); the number of      *)
(* calls made (ticks); a record of the last call (last): the game before   *)
(* it, the raw snapshot, the type drawn and the intermediate values.       *)
(* `action` is a RepeatedAction ticked on its own.                         *)
(***************************************************************************)
VARIABLES gen_id, input, board, points_pos, active_block, active_block_pos,
          drop_timer, changes, status, ticks, last, action

game_vars == <<gen_id, input, board, points_pos, active_block,
               active_block_pos, drop_timer>>

vars == <<gen_id, input, board, points_pos, active_block, active_block_pos,
          drop_timer, changes, status, ticks, last, action>>

Game ==
    [ gen_id |-> gen_id, input |-> input, points_pos |-> points_pos,
      board |-> board, active_block |-> active_block,
      active_block_pos |-> active_block_pos, drop_timer |-> drop_timer ]

GameIs(g) ==
    /\ gen_id = g.gen_id
    /\ input = g.input
    /\ board = g.board
    /\ points_pos = g.points_pos
    /\ active_block = g.active_block
    /\ active_block_pos = g.active_block_pos
    /\ drop_timer = g.drop_timer

GameBecomes(g) ==
    /\ gen_id' = g.gen_id
    /\ input' = g.input
    /\ board' = g.board
    /\ points_pos' = g.points_pos
    /\ active_block' = g.active_block
    /\ active_block_pos' = g.active_block_pos
    /\ drop_timer' = g.drop_timer

NoCall == [kind |-> "none"]

Init ==
    /\ \E g \in InitGames : GameIs(g)
    /\ changes = <<>>
    /\ status = "running"
    /\ ticks = 0
    /\ last = NoCall
    /\ action = RepeatedAction_new(WAIT_DURATION, REPEAT_DURATION)

\* what get_random_block() may return in a call: a type when the call
\* spawns a block, and nothing ("None") when spawn_block is not called
get_random_block(spawn) == IF spawn THEN BlockTypes ELSE {"None"}

\* the state after a call of Game::tick with result r
TickTo(r, raw, block_type) ==
    /\ GameBecomes(r.game)
    /\ changes' = r.changes
    /\ status' = IF r.panicked THEN "panicked" ELSE "running"
    /\ ticks' = ticks + 1
    /\ last' = [ kind |-> "tick", pre |-> Game, raw |-> raw,
                 block_type |-> block_type, steps |-> r.steps,
                 locked_board |-> r.locked_board ]
    /\ UNCHANGED action

\* one call of Game::tick
Tick ==
    /\ status = "running"
    /\ ticks < MaxTicks
    /\ \E raw \in RawInputs :
         \E block_type \in get_random_block(tick_to_spawn(Game, raw).spawn) :
            TickTo(tick(Game, raw, block_type), raw, block_type)

Next == Tick

Spec == Init /\ [][Next]_vars

(***************************************************************************)
(* SpecReplay: Game::tick as in Spec, from fewer starting points.  Its     *)
(* properties compare a call with the same call made again, from the same  *)
(* game, with the same or with altered input.                              *)
(***************************************************************************)
ReplayGames ==
    { Game_new("T"), AtLeftWall("L"), AtRightWall("J"), NearRightWall("I"),
      OnFloor("O"), OnFloor("Z"), LyingOnFloor, FillLast, GapLast, TowerTop,
      TowerOver("I") }

InitReplay ==
    /\ \E g \in ReplayGames : GameIs(g)
    /\ changes = <<>>
    /\ status = "running"
    /\ ticks = 0
    /\ last = NoCall
    /\ action = RepeatedAction_new(WAIT_DURATION, REPEAT_DURATION)

\* ReplayTick whose spawn_block draws a piece type of its own, besides the
\* one the run is given
ReplayTick_any_block ==
    /\ status = "running"
    /\ ticks < MaxReplayTicks
    /\ \E raw \in RawInputs :
         \E block_type \in get_random_block(tick_to_spawn(Game, raw).spawn) :
            \E drawn \in get_random_block(tick_to_spawn(Game, raw).spawn) :
               TickTo(tick(Game, raw, drawn), raw, block_type)

\* one call of Game::tick
ReplayTick ==
    /\ status = "running"
    /\ ticks < MaxReplayTicks
    /\ \E raw \in RawInputs :
         \E block_type \in get_random_block(tick_to_spawn(Game, raw).spawn) :
            TickTo(tick(Game, raw, block_type), raw, block_type)

NextReplay == ReplayTick

SpecReplay == InitReplay /\ [][NextReplay]_vars

(***************************************************************************)
(* SpecAction: one RepeatedAction(WAIT_DURATION, REPEAT_DURATION), as      *)
(* SmartInput::new builds it, ticked with any sequence of held values.     *)
(* last.always_held tells whether the key was held on every tick so far.   *)
(***************************************************************************)
InitAction ==
    /\ GameIs(Game_new("O"))
    /\ changes = <<>>
    /\ status = "running"
    /\ ticks = 0
    /\ last = NoCall
    /\ action = RepeatedAction_new(WAIT_DURATION, REPEAT_DURATION)

\* one call of RepeatedAction::tick
TickAction ==
    /\ ticks < MaxActionTicks
    /\ \E held \in BOOLEAN :
          /\ action' = RepeatedAction_tick(action, held)
          /\ last' = [ kind |-> "action", held |-> held,
                       always_held |-> held /\ (ticks = 0 \/ last.always_held) ]
    /\ ticks' = ticks + 1
    /\ UNCHANGED <<game_vars, changes, status>>

NextAction == TickAction

SpecAction == InitAction /\ [][NextAction]_vars

(***************************************************************************)
(* SpecRows: the row-clear step of Game::tick (find_filled_rows, then      *)
(* remove_rows, then the PointRemoved changes) on boards as a lock may     *)
(* leave them.  A board has MaxRows rows that may hold points, each with   *)
(* one of the RowPatterns, placed one after the other or every fifth row,  *)
(* from the top of the board or down to its bottom row.                    *)
(***************************************************************************)
RowPatterns ==
    << {}, 0..(BOARD_WIDTH - 1), 0..4, {1, 3, 5, 7, 9} >>

\* <<first row, distance between the rows>>
RowPlaces ==
    { <<0, 1>>, <<BOARD_HEIGHT - MaxRows, 1>>,
      <<0, 5>>, <<BOARD_HEIGHT - 1 - 5 * (MaxRows - 1), 5>> }

FirstCellId == Game_new("O").gen_id.next_id

CellId(x, y) == FirstCellId + y * BOARD_WIDTH + x

RowsBoard(place, pats) ==
    Now([y \in 0..(BOARD_HEIGHT - 1) |->
           [x \in 0..(BOARD_WIDTH - 1) |->
              IF \E i \in 1..MaxRows :
                    /\ y = place[1] + place[2] * (i - 1)
                    /\ x \in RowPatterns[pats[i]]
              THEN [id |-> CellId(x, y), origin_block_type |-> "I"]
              ELSE NoPoint]])

RowsMap(b) ==
    LET occupied == {c \in (0..(BOARD_WIDTH - 1)) \X (0..(BOARD_HEIGHT - 1)) :
                        is_some(b[c[2]][c[1]])}
    IN  Now([id \in {CellId(c[1], c[2]) : c \in occupied} |->
               <<(id - FirstCellId) % BOARD_WIDTH, (id - FirstCellId) \div BOARD_WIDTH>>])

RowsGame(place, pats) ==
    LET b == RowsBoard(place, pats)
    IN  [Game_new("O") EXCEPT
            !.board = b,
            !.points_pos = RowsMap(b),
            !.gen_id = [next_id |-> FirstCellId + BOARD_WIDTH * BOARD_HEIGHT]]

InitRows ==
    /\ \E place \in RowPlaces :
          \E pats \in [1..MaxRows -> 1..Len(RowPatterns)] :
             GameIs(RowsGame(place, pats))
    /\ changes = <<>>
    /\ status = "running"
    /\ ticks = 0
    /\ last = NoCall
    /\ action = RepeatedAction_new(WAIT_DURATION, REPEAT_DURATION)

\* the state after the row-clear step with result cl
ClearRowsTo(cl) ==
    /\ GameBecomes(cl.game)
    /\ changes' = removed_changes(cl.removed_points)
    /\ last' = [kind |-> "rows", pre |-> Game]
    /\ ticks' = ticks + 1
    /\ UNCHANGED <<status, action>>

\* the row-clear step
ClearRows ==
    /\ ticks < MaxClears
    /\ ClearRowsTo(clear_rows(Game))

NextRows == ClearRows

SpecRows == InitRows /\ [][NextRows]_vars

(***************************************************************************)
(* SpecRotate: the rotation step of Game::tick with rotate() true, applied *)
(* again and again with no move and no gravity in between.  last.start is  *)
(* the game the rotations started from, last.accepted the number of        *)
(* rotations, when all of them were accepted.                              *)
(***************************************************************************)
RECURSIVE Frames(_, _)
Frames(raw, n) == IF n = 0 THEN <<>> ELSE <<raw>> \o Frames(raw, n - 1)

\* a first block taken l columns to the left, r to the right and some rows down
Placed(block_type, l, r, rows) ==
    Play(Game_new(block_type),
         Taps(KeyLeft, l) \o Taps(KeyRight, r)
             \o Frames(KeyDown, rows * GameRules_fast_drop_speed),
         "I")

RotateGames ==
    { Placed(t, m[1], m[2], rows) :
        t \in BlockTypes,
        m \in {<<0, 0>>, <<2, 0>>, <<4, 0>>, <<0, 2>>, <<0, 5>>},
        rows \in {0, 3} }
    \cup {OnFloor(t) : t \in BlockTypes}
    \cup {TowerOver(t) : t \in {"I", "O", "T"}}
    \cup {LyingOnFloor, FillBeside, GapLast, TowerTop}

InitRotate ==
    /\ \E g \in RotateGames : GameIs(g)
    /\ changes = <<>>
    /\ status = "running"
    /\ ticks = 0
    /\ last = NoCall
    /\ action = RepeatedAction_new(WAIT_DURATION, REPEAT_DURATION)

\* the state after the rotation step with result rot
RotateTo(rot) ==
    /\ active_block' = rot.game.active_block
    /\ active_block_pos' = rot.block_pos
    /\ last' = [ kind |-> "rotate", pre |-> Game,
                 start |-> IF ticks = 0 THEN Game ELSE last.start,
                 rotated |-> rot.rotated,
                 all_accepted |-> rot.rotated /\ (ticks = 0 \/ last.all_accepted) ]
    /\ ticks' = ticks + 1
    /\ UNCHANGED <<gen_id, input, board, points_pos, drop_timer, changes,
                   status, action>>

\* the rotation step
Rotate ==
    /\ ticks < MaxRotations
    /\ RotateTo(rotate_step([Game EXCEPT !.input.rotate.active = TRUE],
                            active_block_pos))

NextRotate == Rotate

SpecRotate == InitRotate /\ [][NextRotate]_vars

(***************************************************************************)
(* SpecIds: a fresh IdGenerator called again and again, as the test        *)
(* generate_ids does.  last.id is the value the last call returned.  The   *)
(* ids stay far below the width of NonZeroU32.                             *)
(***************************************************************************)
InitIds ==
    /\ GameIs([Game_new("O") EXCEPT !.gen_id = IdGenerator_new])
    /\ changes = <<>>
    /\ status = "running"
    /\ ticks = 0
    /\ last = NoCall
    /\ action = RepeatedAction_new(WAIT_DURATION, REPEAT_DURATION)

\* the state after a call with result c
CallIdTo(c) ==
    /\ gen_id' = c.gen
    /\ last' = [kind |-> "id", id |-> c.id]
    /\ ticks' = ticks + 1
    /\ UNCHANGED <<input, board, points_pos, active_block, active_block_pos,
                   drop_timer, changes, status, action>>

\* one call gen_id()
CallId ==
    /\ ticks < MaxIds
    /\ CallIdTo(IdGenerator_call(gen_id))

NextIds == CallId

SpecIds == InitIds /\ [][NextIds]_vars

(***************************************************************************)
(* SpecGravity: Game::tick called with fast-drop held or not and no other  *)
(* key, from Game::new and from games that have run for a while with       *)
(* fast-drop never held, or held on every tick, and are about to lock the  *)
(* first block.  ticks counts the calls since Game::new.  last tells       *)
(* whether the drop timer elapsed in the last call, the timer before it,   *)
(* whether fast-drop was held never, or always, since Game::new, and how   *)
(* many calls are left.                                                    *)
(***************************************************************************)
\* the game after n calls with the same raw input; any spawn is an O block.
\* The calls are made half by half, and in HeldOn the test g = g makes the
\* evaluation of the first half come first.
RECURSIVE Held(_, _, _)
RECURSIVE HeldOn(_, _, _)
Held(g, raw, n) ==
    IF n = 0 THEN g
    ELSE IF n = 1 THEN tick(g, raw, "O").game
    ELSE HeldOn(Held(g, raw, n \div 2), raw, n - (n \div 2))

HeldOn(g, raw, n) == IF g = g THEN Held(g, raw, n) ELSE g

\* calls before the start, when fast-drop was never held: the O block is
\* a few calls from its last fall, to the floor
SlowStart == 215

\* calls before the start, when fast-drop was held always
FastStart == 105

GravityStarts ==
    { [game |-> Game_new(t), ticks |-> 0, never_held |-> TRUE,
       always_held |-> TRUE] : t \in {"O", "I"} }
    \cup { [game |-> Held(Game_new("O"), NoKeys, SlowStart),
            ticks |-> SlowStart, never_held |-> TRUE, always_held |-> FALSE],
           [game |-> Held(Game_new("O"), KeyDown, FastStart),
            ticks |-> FastStart, never_held |-> FALSE, always_held |-> TRUE] }

InitGravity ==
    /\ \E s \in GravityStarts :
          /\ GameIs(s.game)
          /\ ticks = s.ticks
          /\ last = [ kind |-> "start", elapsed |-> FALSE,
                      before |-> s.game.drop_timer, raw |-> NoKeys,
                      never_held |-> s.never_held,
                      always_held |-> s.always_held,
                      left |-> MaxGravityTicks ]
    /\ changes = <<>>
    /\ status = "running"
    /\ action = RepeatedAction_new(WAIT_DURATION, REPEAT_DURATION)

\* the state after a call of Game::tick with result r
GravityTickTo(r, raw) ==
    /\ GameBecomes(r.game)
    /\ changes' = r.changes
    /\ status' = IF r.panicked THEN "panicked" ELSE "running"
    /\ ticks' = ticks + 1
    /\ last' = [ kind |-> "gravity", elapsed |-> r.steps.elapsed,
                 before |-> drop_timer, raw |-> raw,
                 never_held |-> last.never_held /\ ~raw.fast_drop,
                 always_held |-> last.always_held /\ raw.fast_drop,
                 left |-> last.left - 1 ]
    /\ UNCHANGED action

\* one call of Game::tick
GravityTick ==
    /\ status = "running"
    /\ last.left > 0
    /\ \E raw \in {NoKeys, KeyDown} :
         \E block_type \in get_random_block(tick_to_spawn(Game, raw).spawn) :
            GravityTickTo(tick(Game, raw, block_type), raw)

NextGravity == GravityTick

SpecGravity == InitGravity /\ [][NextGravity]_vars

(***************************************************************************)
(* SpecLock: the first block from Game::new up to the call that locks it,  *)
(* with fast-drop held and the rotate key, together with the left key,     *)
(* held or released at will in every call.  Calls keep being issued until  *)
(* the block has locked.                                                   *)
(***************************************************************************)
LockTypes == {"I", "T"}

InitLock ==
    /\ \E t \in LockTypes : GameIs(Game_new(t))
    /\ changes = <<>>
    /\ status = "running"
    /\ ticks = 0
    /\ last = NoCall
    /\ action = RepeatedAction_new(WAIT_DURATION, REPEAT_DURATION)

\* the state after a call of Game::tick with result r
LockTickTo(r) ==
    /\ GameBecomes(r.game)
    /\ changes' = r.changes
    /\ status' = IF r.panicked THEN "panicked" ELSE "running"
    /\ last' = [kind |-> "fall"]
    /\ UNCHANGED <<ticks, action>>

\* one call of Game::tick, while the first block is the active one
LockTick ==
    /\ status = "running"
    /\ changes = <<>>
    /\ \E raw \in {KeyDown, Raw(TRUE, FALSE, TRUE, TRUE)} :
         \E block_type \in get_random_block(tick_to_spawn(Game, raw).spawn) :
            LockTickTo(tick(Game, raw, block_type))

NextLock == LockTick

\* a call is issued: what every call of LockTick does to the drop timer, with
\* fast-drop held.  It is enabled exactly when LockTick is, and a step is
\* one of it exactly when it is one of LockTick.
CallIssued ==
    /\ status = "running"
    /\ changes = <<>>
    /\ drop_timer' = tick_and_restart_if_elapsed(
                         drop_timer, GameRules_fast_drop_speed).timer

SpecLock == InitLock /\ [][NextLock]_vars /\ WF_drop_timer(CallIssued)

(***************************************************************************)
(* Properties of the game under Spec.                                      *)
(***************************************************************************)
Cells == (0..(BOARD_WIDTH - 1)) \X (0..(BOARD_HEIGHT - 1))

PointAt(b, c) == b[c[2]][c[1]]

\* the cells of a grid that hold a point, row by row
OccupiedCells(b) ==
    UNION { {<<x, y>> : x \in {z \in 0..(BOARD_WIDTH - 1) : is_some(b[y][z])}} :
            y \in {r \in 0..(BOARD_HEIGHT - 1) : b[r] # EmptyRow} }

\* the last call of Game::tick returned (it did not panic)
TickReturned == last.kind = "tick" /\ status = "running"

RemovedIds(chs) == {chs[i].id : i \in {j \in 1..Len(chs) : chs[j].kind = "PointRemoved"}}

\* C1: in every reachable state the grid and the Id->Position map agree: a
\* point id is stored in cell (x,y) iff the map holds (x,y) for that id, and
\* no id occurs in two cells.
GridMapAgree ==
    LET occupied == OccupiedCells(board)
    IN  /\ \A c \in occupied :
              /\ PointAt(board, c).id \in DOMAIN points_pos
              /\ points_pos[PointAt(board, c).id] = c
        /\ \A id \in DOMAIN points_pos :
              /\ points_pos[id] \in occupied
              /\ PointAt(board, points_pos[id]).id = id
        /\ Cardinality({PointAt(board, c).id : c \in occupied})
              = Cardinality(occupied)

\* C1 witness: a tick has cleared a row and moved the points left on the board
GridMapAgreeWitness ==
    /\ TickReturned
    /\ RemovedIds(changes) # {}
    /\ \E id \in DOMAIN points_pos :
          /\ id \in DOMAIN last.pre.points_pos
          /\ points_pos[id] # last.pre.points_pos[id]

\* C2: whenever the active block locks, every cell it is written into is
\* empty just before the write: the assertion of lock_active_block_to_board
\* never fails in a reachable state.
LockAssertionNeverFails == status # "panicked"

\* C3: the sequence a tick returns is empty when the tick does not lock, and
\* is BlockLocked, then zero or more PointRemoved, then NewBlock when it does.
EventShape ==
    TickReturned =>
        IF last.steps.lock
        THEN /\ Len(changes) >= 2
             /\ changes[1].kind = "BlockLocked"
             /\ changes[Len(changes)].kind = "NewBlock"
             /\ \A i \in 2..(Len(changes) - 1) : changes[i].kind = "PointRemoved"
        ELSE changes = <<>>

\* C3 witness: a tick that locked and removed points has returned
EventShapeWitness ==
    /\ TickReturned
    /\ last.steps.lock
    /\ Len(changes) > 2

\* the cells a layout (a set of local positions) covers at an anchor
Covered(layout, pos) == {add_positions(pos, p) : p \in layout}

Overlaps(b, layout, pos) == \E c \in Covered(layout, pos) : is_some(PointAt(b, c))

\* the rotation attempted in the last call is one the rules reject: the
\* rotated bounding box leaves the board, or the rotated placement meets a
\* locked cell
RotationRejected ==
    LET block == last.pre.active_block
        c == rotate_candidate(block, last.steps.pos_right)
        cells == Covered(SeqValues(c.rot_points), c.rot_piece_pos)
    IN  /\ last.kind = "tick"
        /\ input.rotate.active
        /\ \/ ~(cells \subseteq Cells)
           \/ \E cell \in cells : is_some(PointAt(last.pre.board, cell))

\* the last call with the rotate key not held
WithoutRotate ==
    tick(last.pre, [last.raw EXCEPT !.rotate = FALSE], last.block_type)

\* C8: when a rotation is attempted and rejected, the local layout and the
\* anchor of the active block after the tick are what the same tick without
\* the rotate input gives.
RejectedRotationChangesNothing ==
    RotationRejected =>
        /\ active_block.points_pos = WithoutRotate.game.active_block.points_pos
        /\ active_block_pos = WithoutRotate.game.active_block_pos

\* C8 witness: a rotation was rejected because the rotated placement meets
\* a locked cell although it lies on the board
RejectedRotationWitness ==
    /\ RotationRejected
    /\ LET c == rotate_candidate(last.pre.active_block, last.steps.pos_right)
       IN  Covered(SeqValues(c.rot_points), c.rot_piece_pos) \subseteq Cells

\* the rows the lock of the last call filled
FilledByLock ==
    {y \in 0..(BOARD_HEIGHT - 1) : row_filled(last.locked_board, y)}

\* C9: when a lock fills a board row, the tick returns BlockLocked, then a
\* PointRemoved for each of the BOARD_WIDTH points of that row, those of the
\* block just locked included, then NewBlock, and afterwards none of those
\* ids is in the grid or in the map.
FilledRowIsRemoved ==
    (TickReturned /\ last.steps.lock) =>
        \A y \in FilledByLock :
            LET ids == {last.locked_board[y][x].id : x \in 0..(BOARD_WIDTH - 1)}
            IN  /\ Cardinality(ids) = BOARD_WIDTH
                /\ changes[1].kind = "BlockLocked"
                /\ changes[Len(changes)].kind = "NewBlock"
                /\ \A id \in ids :
                      /\ \E i \in 2..(Len(changes) - 1) :
                            changes[i] = [kind |-> "PointRemoved", id |-> id]
                      /\ id \notin DOMAIN points_pos
                      /\ \A c \in Cells : PointAt(board, c).id # id

\* C9 witness: a lock filled a row that holds points of the block locked
FilledRowWitness ==
    /\ TickReturned
    /\ last.steps.lock
    /\ \E y \in FilledByLock, x \in 0..(BOARD_WIDTH - 1) :
          last.locked_board[y][x].id \in DOMAIN last.pre.active_block.points_pos

\* C10: in a tick where move-left (move-right) is debounced-active, the
\* anchor column goes down (up) by 1 in the move step if x > 0
\* (x + width() < BOARD_WIDTH - 1) and the shifted placement overlaps no
\* locked cell, and stays otherwise; on an empty board the move is refused
\* exactly at x = 0 and at x + width() = BOARD_WIDTH - 1.
HorizontalMove ==
    last.kind = "tick" =>
        LET b == last.pre.board
            layout == PosValues(last.pre.active_block.points_pos)
            w == width(last.pre.active_block)
            p0 == last.steps.pos_start
            p1 == last.steps.pos_left
            p2 == last.steps.pos_right
            empty == \A c \in Cells : ~is_some(PointAt(b, c))
        IN  /\ input.move_left.active =>
                /\ p1 = IF p0[1] > 0 /\ ~Overlaps(b, layout, <<p0[1] - 1, p0[2]>>)
                        THEN <<p0[1] - 1, p0[2]>> ELSE p0
                /\ empty => (p1 = p0 <=> p0[1] = 0)
            /\ input.move_right.active =>
                /\ p2 = IF /\ p1[1] + w < BOARD_WIDTH - 1
                           /\ ~Overlaps(b, layout, <<p1[1] + 1, p1[2]>>)
                        THEN <<p1[1] + 1, p1[2]>> ELSE p1
                /\ empty => (p2 = p1 <=> p1[1] + w = BOARD_WIDTH - 1)
            /\ ~input.move_left.active => p1 = p0
            /\ ~input.move_right.active => p2 = p1

\* C10 witness: a move to the left was refused because of a locked cell, away
\* from the wall
HorizontalMoveWitness ==
    /\ last.kind = "tick"
    /\ input.move_left.active
    /\ last.steps.pos_start[1] > 0
    /\ last.steps.pos_left = last.steps.pos_start

\* the columns the active block covers after the move steps of the last call
ColumnsAfterMove ==
    {c[1] : c \in Covered(PosValues(last.pre.active_block.points_pos),
                          last.steps.pos_right)}

\* C11, as the claim states it: after a horizontal move no cell of the
\* active block lies in column BOARD_WIDTH - 1.
LastColumnUnusable ==
    (last.kind = "tick" /\ last.steps.pos_right # last.steps.pos_start) =>
        (BOARD_WIDTH - 1) \notin ColumnsAfterMove

\* C11, amended: the bound x + width() < BOARD_WIDTH - 1 leaves no column
\* unusable.  After the move steps every cell of the active block lies in
\* the columns 0..BOARD_WIDTH-1, and on an empty board a move to the right
\* is refused only when the block already lies in column BOARD_WIDTH - 1.
LastColumnUsable ==
    (last.kind = "tick" /\ input.move_right.active) =>
        /\ ColumnsAfterMove \subseteq 0..(BOARD_WIDTH - 1)
        /\ ( /\ DOMAIN last.pre.points_pos = {}
             /\ last.steps.pos_right = last.steps.pos_left )
              => (BOARD_WIDTH - 1) \in ColumnsAfterMove

\* C11 witness: a move to the right was made and took the block into column
\* BOARD_WIDTH - 1
LastColumnWitness ==
    /\ last.kind = "tick"
    /\ input.move_right.active
    /\ last.steps.pos_right[1] = last.steps.pos_left[1] + 1
    /\ (BOARD_WIDTH - 1) \in ColumnsAfterMove

\* the last call returned NewBlock
NewBlockReturned ==
    /\ TickReturned
    /\ \E i \in 1..Len(changes) : changes[i].kind = "NewBlock"

\* game g holds a block as spawned: anchored at (4, 0), with four points,
\* the i-th at the i-th offset of the catalog shape of its type
AsSpawned(g) ==
    /\ g.active_block_pos = <<4, 0>>
    /\ g.active_block.block_type \in BlockTypes
    /\ Len(g.active_block.points) = 4
    /\ Len(BLOCKS[g.active_block.block_type]) = 4
    /\ DOMAIN g.active_block.points_pos
          = {g.active_block.points[i].id : i \in 1..4}
    /\ Cardinality(DOMAIN g.active_block.points_pos) = 4
    /\ \A i \in 1..4 :
          /\ g.active_block.points_pos[g.active_block.points[i].id]
                = BLOCKS[g.active_block.block_type][i]
          /\ g.active_block.points[i].origin_block_type
                = g.active_block.block_type

\* C12: at game creation and after every tick that returns NewBlock the
\* active block is anchored at (4, 0) and its local layout is the catalog
\* shape of its type, one point per offset, in catalog order.
SpawnedAtTopCenter ==
    /\ \A t \in BlockTypes :
          AsSpawned(Game_new(t)) /\ Game_new(t).active_block.block_type = t
    /\ NewBlockReturned =>
          AsSpawned(Game) /\ active_block.block_type = last.block_type

\* C12 witness: a tick returned NewBlock after a block locked away from the
\* spawn position, rotated
SpawnedWitness ==
    /\ NewBlockReturned
    /\ last.pre.active_block_pos # <<4, 0>>
    /\ last.pre.active_block.points_pos[last.pre.active_block.points[1].id]
          # BLOCKS[last.pre.active_block.block_type][1]

(***************************************************************************)
(* Properties of RepeatedAction under SpecAction.                          *)
(***************************************************************************)
\* C4: a RepeatedAction(30, 5) that starts Inactive and is held on every
\* tick reports active on the ticks 0, 30, 35, 40, ... and on no other; the
\* tick just made has index ticks - 1.
FiresOnSchedule ==
    (last.kind = "action" /\ last.always_held) =>
        LET n == ticks - 1
        IN  action.active <=>
               \/ n = 0
               \/ n >= WAIT_DURATION /\ (n - WAIT_DURATION) % REPEAT_DURATION = 0

\* C4 witness: held on all of the ticks 0..100, the action fires on tick 100
FiresOnScheduleWitness ==
    /\ last.kind = "action"
    /\ last.always_held
    /\ ticks = 101
    /\ action.active

\* the RepeatedAction put into state s with timer count t
ActionIn(s, t) == [action EXCEPT !.state = s, !.timer = [tick |-> t], !.active = FALSE]

\* a released tick, then a held tick
Tap(a) == RepeatedAction_tick(RepeatedAction_tick(a, FALSE), TRUE)

\* C18: a tick with the key released leaves the RepeatedAction Inactive and
\* not active, whatever its state and timer were; the first held tick after
\* a release reports active whatever came before; with released and held
\* ticks alternating every held tick reports active.
ReleaseResets ==
    /\ (last.kind = "action" /\ ~last.held) =>
          action.state = "Inactive" /\ ~action.active
    /\ \A a \in {action} \cup
                {ActionIn(s, t) : s \in {"Inactive", "Wait", "Repeat"},
                                  t \in 0..WAIT_DURATION} :
          /\ RepeatedAction_tick(a, FALSE).state = "Inactive"
          /\ ~RepeatedAction_tick(a, FALSE).active
          /\ RepeatedAction_tick(RepeatedAction_tick(a, FALSE), FALSE).state
                = "Inactive"
          /\ Tap(a).active
          /\ Tap(Tap(a)).active
          /\ Tap(Tap(Tap(a))).active
    /\ action.state = "Inactive" => RepeatedAction_tick(action, TRUE).active

\* C18 witness: after a long hold and a release, the key is pressed again
\* and the action reports active
ReleaseResetsWitness ==
    /\ last.kind = "action"
    /\ last.held
    /\ ~last.always_held
    /\ action.active
    /\ action.state = "Wait"
    /\ ticks > WAIT_DURATION + REPEAT_DURATION

(***************************************************************************)
(* Properties of the row-clear step under SpecRows.                        *)
(***************************************************************************)
\* the rows of a board with a point in every column
FullRows(b) ==
    {y \in 0..(BOARD_HEIGHT - 1) : \A x \in 0..(BOARD_WIDTH - 1) : is_some(b[y][x])}

\* C5: remove_rows moves every point that remains down by the number of
\* filled rows below its row and keeps its column, in the grid and in the
\* map, and the number of locked points drops by N * BOARD_WIDTH for N
\* filled rows.
RowsCompacted ==
    last.kind = "rows" =>
        LET pre == last.pre
            full == FullRows(pre.board)
            kept == {id \in DOMAIN pre.points_pos : pre.points_pos[id][2] \notin full}
            below(y) == Cardinality({r \in full : r > y})
        IN  /\ DOMAIN points_pos = kept
            /\ \A id \in kept :
                  LET was == pre.points_pos[id]
                      now == <<was[1], was[2] + below(was[2])>>
                  IN  /\ points_pos[id] = now
                      /\ PointAt(board, now) = PointAt(pre.board, was)
            /\ Cardinality(DOMAIN points_pos)
                  = Cardinality(DOMAIN pre.points_pos) - Cardinality(full) * BOARD_WIDTH
            /\ Cardinality({c \in Cells : is_some(PointAt(board, c))})
                  = Cardinality(kept)

\* C5 witness: two filled rows with a row of points between them and one
\* above them were removed
RowsCompactedWitness ==
    /\ last.kind = "rows"
    /\ \E lo, mid, hi, top \in 0..(BOARD_HEIGHT - 1) :
          /\ top < hi /\ hi < mid /\ mid < lo
          /\ {lo, hi} \subseteq FullRows(last.pre.board)
          /\ {mid, top} \cap FullRows(last.pre.board) = {}
          /\ \E x \in 0..(BOARD_WIDTH - 1) : is_some(last.pre.board[mid][x])
          /\ \E x \in 0..(BOARD_WIDTH - 1) : is_some(last.pre.board[top][x])

\* C6: on a board with no filled row the row-clear step leaves the grid, the
\* map and the active block as they are and gives no PointRemoved.
NothingToClear ==
    (last.kind = "rows" /\ FullRows(last.pre.board) = {}) =>
        /\ board = last.pre.board
        /\ points_pos = last.pre.points_pos
        /\ active_block = last.pre.active_block
        /\ active_block_pos = last.pre.active_block_pos
        /\ RemovedIds(changes) = {}

\* C6 witness: the step ran on a board that holds points and no filled row
NothingToClearWitness ==
    /\ last.kind = "rows"
    /\ FullRows(last.pre.board) = {}
    /\ DOMAIN last.pre.points_pos # {}

(***************************************************************************)
(* Properties of the rotation step under SpecRotate.                       *)
(***************************************************************************)
\* C7: four rotations of an O in succession, all accepted, give back the
\* local layout and the anchor the O had before them.
FourRotationsOfO ==
    ( /\ last.kind = "rotate"
      /\ active_block.block_type = "O"
      /\ ticks = 4
      /\ last.all_accepted ) =>
        /\ active_block.points_pos = last.start.active_block.points_pos
        /\ active_block_pos = last.start.active_block_pos

\* the ids of the points of a block
BlockPointIds(block) == {block.points[i].id : i \in 1..Len(block.points)}

\* the ids stored in the cells of a grid
GridIds(b) == {PointAt(b, c).id : c \in OccupiedCells(b)}

\* every id game g holds: in its grid, its map and its active block
IdsIn(g) ==
    GridIds(g.board) \cup DOMAIN g.points_pos \cup {g.active_block.id}
        \cup BlockPointIds(g.active_block) \cup DOMAIN g.active_block.points_pos

\* the ids `held` after a call, of which `grid` are in the grid and `points`
\* belong to the active block, are distinct, below next_id and none of the
\* ids `removed`
IdsDistinct(held, grid, points, removed) ==
    /\ \A id \in held \cup removed : id >= 1 /\ id < gen_id.next_id
    /\ active_block.id \notin points
    /\ Cardinality(points) = Len(active_block.points)
    /\ points \cap grid = {}
    /\ active_block.id \notin grid
    /\ Cardinality(grid) = Cardinality(OccupiedCells(board))
    /\ removed \cap held = {}

\* of the ids `held` after a call those not among the ids `before` it are
\* new: the generator had not handed them out; the ids `removed` are among
\* the ids before, and with a spawn the ids of the block are all new
IdsFresh(held, before, removed, new_block) ==
    /\ gen_id.next_id >= last.pre.gen_id.next_id
    /\ removed \subseteq before
    /\ \A id \in held \ before : id >= last.pre.gen_id.next_id
    /\ new_block => ({active_block.id} \cup BlockPointIds(active_block))
                       \cap before = {}

\* C14: the ids assigned are pairwise distinct: the block id, the ids of its
\* points and the ids in the grid differ from each other and were all handed
\* out by the generator already; a tick brings in only ids the generator had
\* not handed out before it, so a spawned block has fresh ids; an id reported
\* in PointRemoved is gone from the grid, the map and the active block, and
\* is below next_id, so it is never assigned again.
IdsNeverReused ==
    status = "running" =>
        /\ IdsDistinct(IdsIn(Game), GridIds(board), BlockPointIds(active_block),
                       RemovedIds(changes))
        /\ last.kind = "tick" =>
              IdsFresh(IdsIn(Game), IdsIn(last.pre), RemovedIds(changes),
                       NewBlockReturned)

\* C14 witness: a tick removed points and spawned a block beside points that
\* stay on the board
IdsNeverReusedWitness ==
    /\ NewBlockReturned
    /\ RemovedIds(changes) # {}
    /\ GridIds(board) # {}

\* the drop timer elapses in the last call: its count after the increment
\* has reached the speed selected
TimerElapses ==
    last.pre.drop_timer.tick + 1
        >= (IF last.raw.fast_drop THEN GameRules_fast_drop_speed
            ELSE GameRules_drop_speed)

\* the local layout of the active block after the move and the rotation of
\* the last call
LayoutAfterRotation ==
    IF last.steps.rotated
    THEN SeqValues(rotate_candidate(last.pre.active_block,
                                    last.steps.pos_right).rot_points)
    ELSE PosValues(last.pre.active_block.points_pos)

\* the lock condition of the last call, on the anchor and the layout after
\* its move and rotation
LockCondition ==
    \/ last.steps.pos_rotate[2] + SetMax({p[2] : p \in LayoutAfterRotation})
          = BOARD_HEIGHT - 1
    \/ Overlaps(last.pre.board, LayoutAfterRotation,
                <<last.steps.pos_rotate[1], last.steps.pos_rotate[2] + 1>>)

\* the last call locked the block: it returned BlockLocked first, and the
\* cells of the block held its points just after the lock
BlockLocks ==
    /\ status = "running"
    /\ changes # <<>>
    /\ changes[1].kind = "BlockLocked"
    /\ \A c \in Covered(LayoutAfterRotation, last.steps.pos_rotate) :
          PointAt(last.locked_board, c).id
              \in BlockPointIds(last.pre.active_block)

\* what a call does with the block after the move and the rotation
LockOrFall ==
    IF TimerElapses
    THEN /\ BlockLocks <=> LockCondition
         /\ ~LockCondition =>
               /\ changes = <<>>
               /\ active_block_pos = << last.steps.pos_rotate[1],
                                        last.steps.pos_rotate[2] + 1 >>
               /\ PosValues(active_block.points_pos) = LayoutAfterRotation
    ELSE /\ changes = <<>>
         /\ active_block_pos = last.steps.pos_rotate
         /\ ~last.steps.rotated =>
               active_block_pos[2] = last.pre.active_block_pos[2]

\* C19: in a call where the drop timer elapses the block locks iff its
\* lowest row is the row above BOARD_HEIGHT - 1 (anchor row + height() =
\* BOARD_HEIGHT - 1) or the placement one row lower meets a locked cell, for
\* the anchor and the layout after the move and the rotation of the call;
\* otherwise the anchor goes one row down and no event is returned.  In a
\* call where the timer does not elapse the anchor row changes only by an
\* accepted rotation.
LocksWhenItMust == last.kind = "tick" => LockOrFall

(***************************************************************************)
(* Properties of Game::tick under SpecReplay.                              *)
(***************************************************************************)
\* game g without the instant_drop flag SmartInput stores
WithoutInstantDrop(g) == [g EXCEPT !.input.instant_drop = FALSE]

\* the last tick run again from the game before it, with the stored and the
\* raw instant_drop flag set to was and now
TickWithInstantDrop(was, now) ==
    tick([last.pre EXCEPT !.input.instant_drop = was],
         [last.raw EXCEPT !.instant_drop = now], last.block_type)

\* the result r of a call is what the last call gave, but for the
\* instant_drop flag stored
SameButInstantDrop(r) ==
    /\ r.changes = changes
    /\ r.panicked = (status = "panicked")
    /\ WithoutInstantDrop(r.game) = WithoutInstantDrop(Game)

\* C15: instant_drop has no effect: whatever the instant_drop flag was on the
\* tick before and is on this tick, the tick returns the same events (or
\* panics alike) and leaves the same board, map, active block, anchor,
\* generator and timers.
InstantDropHasNoEffect ==
    last.kind = "tick" =>
        \A was, now \in BOOLEAN : SameButInstantDrop(TickWithInstantDrop(was, now))

\* C15 witness: a tick with instant_drop set locked the block and spawned
InstantDropWitness ==
    /\ NewBlockReturned
    /\ last.raw.instant_drop
    /\ input.instant_drop

\* the last tick run again from the game before it, with the same raw input
\* and the same piece type
TickAgain == tick(last.pre, last.raw, last.block_type)

\* the result r of a call is what the last call gave
SameResult(r) ==
    /\ r.changes = changes
    /\ r.panicked = (status = "panicked")
    /\ r.game = Game

GravityTiming ==
    last.kind = "gravity" =>
        /\ last.elapsed <=>
              last.before.tick + 1 >= (IF last.raw.fast_drop THEN 5 ELSE 10)
        /\ drop_timer.tick = IF last.elapsed THEN 0 ELSE last.before.tick + 1
        /\ last.never_held => (last.elapsed <=> ticks % 10 = 0)
        /\ last.always_held => (last.elapsed <=> ticks % 5 = 0)

\* C17 witness: with fast-drop never held, the drop timer elapses in the
\* 10th call after the one that locked the first block
GravityTimingWitness ==
    /\ last.kind = "gravity"
    /\ last.never_held
    /\ last.elapsed
    /\ gen_id.next_id > 6
    /\ active_block_pos[2] = 1

\* the cells of the rotated, normalised layout of a block at the candidate
\* anchor, the old anchor plus (min_x, min_y)
RotatedCells(block, block_pos) ==
    Covered(SeqValues(rotate_candidate(block, block_pos).rot_points),
            rotate_candidate(block, block_pos).rot_piece_pos)

\* every cell of the rotated block is inside the board
RotatedInside(block, block_pos) == RotatedCells(block, block_pos) \subseteq Cells

\* every cell of the rotated block is inside the board and empty
RotationFits(block, block_pos, b) ==
    /\ RotatedInside(block, block_pos)
    /\ \A c \in RotatedCells(block, block_pos) : ~is_some(PointAt(b, c))

\* the bounds test of rotate_block, with the extents of the block before the
\* rotation
RotationInBounds(block, block_pos) ==
    ~ \/ rotate_candidate(block, block_pos).rot_piece_pos[1] < 0
      \/ rotate_candidate(block, block_pos).rot_piece_pos[1] + height(block)
            >= BOARD_WIDTH
      \/ rotate_candidate(block, block_pos).rot_piece_pos[2] < 0
      \/ rotate_candidate(block, block_pos).rot_piece_pos[2] + width(block)
            >= BOARD_HEIGHT

\* the anchors at which a block lies inside the board
Anchors(block) ==
    (0..(BOARD_WIDTH - 1 - width(block))) \X (0..(BOARD_HEIGHT - 1 - height(block)))

\* C20: a rotation is accepted iff every cell of the rotated, normalised
\* layout at the candidate anchor is inside the board and empty, and the
\* bounds test with the extents from before the rotation rejects exactly
\* the placements that leave the board: in the rotation just made, and for
\* the block in its present orientation at every anchor of the board.
RotationAcceptedIffFits ==
    /\ last.kind = "rotate" =>
          /\ last.rotated <=>
                RotationFits(last.pre.active_block, last.pre.active_block_pos,
                             last.pre.board)
          /\ last.rotated =>
                Covered(PosValues(active_block.points_pos), active_block_pos)
                   = RotatedCells(last.pre.active_block,
                                  last.pre.active_block_pos)
          /\ ~last.rotated =>
                /\ active_block = last.pre.active_block
                /\ active_block_pos = last.pre.active_block_pos
    /\ \A pos \in Anchors(active_block) :
          /\ RotationInBounds(active_block, pos)
                <=> RotatedInside(active_block, pos)
          /\ (rotate_block(active_block, pos, board) # None)
                <=> RotationFits(active_block, pos, board)

\* C20 witness: a rotation is refused at an anchor where the rotated block
\* would be inside the board, but on a locked cell
RotationAcceptedWitness ==
    /\ last.kind = "rotate"
    /\ ~last.rotated
    /\ RotatedInside(last.pre.active_block, last.pre.active_block_pos)
    /\ ~RotationFits(last.pre.active_block, last.pre.active_block_pos,
                     last.pre.board)

(***************************************************************************)
(* Properties of the IdGenerator under SpecIds.                            *)
(***************************************************************************)
\* C13: the k-th call of a fresh IdGenerator returns k.
KthCallReturnsK == last.kind = "id" => last.id = ticks

\* C13 witness: the 100th call has returned
KthCallWitness == last.kind = "id" /\ ticks = 100 /\ last.id = 100

(***************************************************************************)
(* Further properties of the game under Spec.                              *)
(***************************************************************************)
\* C21: within a call the steps come in the order horizontal move,
\* rotation, gravity: the rotation is attempted at the anchor after the
\* move (accepted iff the rotated block fits there, and then the anchor is
\* the candidate from that anchor); the lock writes the block at the anchor
\* and with the layout after move and rotation, the fall goes one row down
\* from that anchor; without the drop timer elapsing that anchor and layout
\* are the active block's after the call.
MoveThenRotateThenFall ==
    TickReturned =>
        /\ last.steps.rotated <=>
              /\ input.rotate.active
              /\ RotationFits(last.pre.active_block, last.steps.pos_right,
                              last.pre.board)
        /\ last.steps.pos_rotate =
              IF last.steps.rotated
              THEN rotate_candidate(last.pre.active_block,
                                    last.steps.pos_right).rot_piece_pos
              ELSE last.steps.pos_right
        /\ IF TimerElapses /\ LockCondition
           THEN BlockLocks
           ELSE /\ PosValues(active_block.points_pos) = LayoutAfterRotation
                /\ active_block_pos =
                      << last.steps.pos_rotate[1],
                         last.steps.pos_rotate[2]
                            + (IF TimerElapses THEN 1 ELSE 0) >>

\* C21 witness: in one call the block moved sideways, then was rotated at
\* an anchor where the rotation from the old anchor would have been
\* refused, and the drop timer did not elapse
MoveThenRotateWitness ==
    /\ TickReturned
    /\ last.steps.pos_right # last.steps.pos_start
    /\ last.steps.rotated
    /\ ~RotationFits(last.pre.active_block, last.steps.pos_start,
                     last.pre.board)
    /\ ~TimerElapses

\* the local position map of a block has one entry per point of the block,
\* with coordinates that are not negative
LocalMapWellFormed(block) ==
    /\ DOMAIN block.points_pos = BlockPointIds(block)
    /\ Cardinality(DOMAIN block.points_pos) = Len(block.points)
    /\ \A id \in DOMAIN block.points_pos :
          block.points_pos[id][1] >= 0 /\ block.points_pos[id][2] >= 0

\* the local position of each point after a rotation of the block at
\* block_pos
RotatedMap(block, block_pos) ==
    [ id \in BlockPointIds(block) |->
        rotate_candidate(block, block_pos).rot_points[
            CHOOSE i \in 1..Len(block.points) : block.points[i].id = id] ]

\* C22: the local position map of the active block has exactly one entry per
\* point, with non-negative coordinates; while the block stays the active
\* one its points stay the same and its map changes only in a call where
\* rotate is debounced-active and the rotation is accepted, and is then the
\* rotated map over the same ids; a call without an accepted rotation (with
\* or without a move or a fall) leaves the map as it was.
LocalMapChangesByRotation ==
    /\ LocalMapWellFormed(active_block)
    /\ (last.kind = "tick" /\ active_block.id = last.pre.active_block.id) =>
          /\ active_block.points = last.pre.active_block.points
          /\ DOMAIN active_block.points_pos
                = DOMAIN last.pre.active_block.points_pos
          /\ active_block.points_pos # last.pre.active_block.points_pos =>
                /\ input.rotate.active
                /\ RotationFits(last.pre.active_block, last.steps.pos_right,
                                last.pre.board)
          /\ active_block.points_pos =
                IF last.steps.rotated
                THEN RotatedMap(last.pre.active_block, last.steps.pos_right)
                ELSE last.pre.active_block.points_pos

\* C22 witness: a call that moved the block sideways, rotated it and let it
\* fall one row has replaced the map
LocalMapWitness ==
    /\ TickReturned
    /\ active_block.id = last.pre.active_block.id
    /\ last.steps.pos_right # last.steps.pos_start
    /\ active_block_pos[2] = last.steps.pos_rotate[2] + 1
    /\ active_block.points_pos # last.pre.active_block.points_pos

(***************************************************************************)
(* Further properties of the row-clear step under SpecRows.                *)
(***************************************************************************)
\* position p comes before position q in the order of the PointRemoved
\* events: in a lower row (larger y), or in the same row further left
RemovedBefore(p, q) == p[2] > q[2] \/ (p[2] = q[2] /\ p[1] < q[1])

\* C23: the PointRemoved events of a clear are ordered by the position the
\* point had before the clear: bottom row first, and left to right within a
\* row.
RemovedBottomRowFirst ==
    last.kind = "rows" =>
        /\ \A i \in 1..Len(changes) :
              /\ changes[i].kind = "PointRemoved"
              /\ changes[i].id \in DOMAIN last.pre.points_pos
        /\ \A i, j \in 1..Len(changes) :
              i < j => RemovedBefore(last.pre.points_pos[changes[i].id],
                                     last.pre.points_pos[changes[j].id])

\* C23 witness: a clear of three or more rows, not all next to each other
RemovedBottomRowFirstWitness ==
    /\ last.kind = "rows"
    /\ Len(changes) >= 3 * BOARD_WIDTH
    /\ \E y \in 1..(BOARD_HEIGHT - 2) :
          /\ y \notin FullRows(last.pre.board)
          /\ \E a, b \in FullRows(last.pre.board) : a < y /\ y < b

\* the cells a block with the given layout covers at an anchor lie inside
\* the board
Inside(layout, pos) == Covered(layout, pos) \subseteq Cells

\* the cells is_block_collides may read in the last call for the move to
\* the left: none when the && before it is false
LeftReads ==
    IF input.move_left.active /\ last.steps.pos_start[1] > 0
    THEN Covered(PosValues(last.pre.active_block.points_pos),
                 <<last.steps.pos_start[1] - 1, last.steps.pos_start[2]>>)
    ELSE {}

\* the same for the move to the right
RightReads ==
    IF /\ input.move_right.active
       /\ last.steps.pos_left[1] + width(last.pre.active_block)
             < BOARD_WIDTH - 1
    THEN Covered(PosValues(last.pre.active_block.points_pos),
                 <<last.steps.pos_left[1] + 1, last.steps.pos_left[2]>>)
    ELSE {}

\* the cells the closure passed to rotate_block may read: those of the
\* rotated block, once the bounds test has let it pass
RotateReads ==
    IF /\ input.rotate.active
       /\ RotationInBounds(last.pre.active_block, last.steps.pos_right)
    THEN RotatedCells(last.pre.active_block, last.steps.pos_right)
    ELSE {}

\* the cells the lock condition may read: one row below the block, unless
\* the || before it is true already
FallReads ==
    IF /\ TimerElapses
       /\ last.steps.pos_rotate[2] + SetMax({p[2] : p \in LayoutAfterRotation})
             # BOARD_HEIGHT - 1
    THEN Covered(LayoutAfterRotation,
                 <<last.steps.pos_rotate[1], last.steps.pos_rotate[2] + 1>>)
    ELSE {}

\* C24: in every reachable state the active block lies inside the board
\* (anchor.x + width() <= BOARD_WIDTH - 1, anchor.y + height() <=
\* BOARD_HEIGHT - 1), and every cell a call reads in a collision test or
\* writes in a lock is a cell of the board.
NoAccessOutsideTheBoard ==
    /\ active_block_pos[1] >= 0
    /\ active_block_pos[2] >= 0
    /\ active_block_pos[1] + width(active_block) <= BOARD_WIDTH - 1
    /\ active_block_pos[2] + height(active_block) <= BOARD_HEIGHT - 1
    /\ Inside(PosValues(active_block.points_pos), active_block_pos)
    /\ last.kind = "tick" =>
          /\ LeftReads \subseteq Cells
          /\ RightReads \subseteq Cells
          /\ RotateReads \subseteq Cells
          /\ FallReads \subseteq Cells
          /\ (TimerElapses /\ LockCondition) =>
                Inside(LayoutAfterRotation, last.steps.pos_rotate)

\* C24 witness: a call at the right wall, on the floor, that tests the move
\* to the left and the rotation and then locks the block
NoAccessOutsideWitness ==
    /\ last.kind = "tick"
    /\ LeftReads # {}
    /\ input.rotate.active
    /\ last.steps.pos_start[1] + width(last.pre.active_block)
          = BOARD_WIDTH - 1
    /\ TimerElapses
    /\ last.steps.pos_rotate[2] + SetMax({p[2] : p \in LayoutAfterRotation})
          = BOARD_HEIGHT - 1

\* the active block of game g covers a locked cell
ActiveOverlaps(g) ==
    Overlaps(g.board, PosValues(g.active_block.points_pos), g.active_block_pos)

\* the last call returned without locking the block
TickWithoutLock == TickReturned /\ changes = <<>>

\* C25: a call that does not lock the block keeps it off the locked cells:
\* when the active block covers no locked cell before the call, it covers
\* none after it, whatever move, rotation and fall the call made; the
\* locked cells are the same.
NoOverlapWithoutLock ==
    (TickWithoutLock /\ ~ActiveOverlaps(last.pre)) =>
        /\ board = last.pre.board
        /\ ~ActiveOverlaps(Game)

\* C25 witness: beside locked cells a call moved the block sideways and let
\* it fall one row
NoOverlapWitness ==
    /\ TickWithoutLock
    /\ ~ActiveOverlaps(last.pre)
    /\ board # EmptyBoard
    /\ active_block_pos[1] # last.pre.active_block_pos[1]
    /\ active_block_pos[2] = last.pre.active_block_pos[2] + 1
    /\ \E c \in Covered(PosValues(active_block.points_pos), active_block_pos) :
          \E d \in OccupiedCells(board) :
             (c[1] - d[1]) * (c[1] - d[1]) + (c[2] - d[2]) * (c[2] - d[2]) = 1

\* C26: after every call of Game::tick that returns no row of the board is
\* completely filled: the rows a lock fills are cleared in the same call,
\* and moving the rows above them down fills no row.
NoFilledRowAfterTick ==
    status = "running" => FullRows(board) = {}

\* C26 witness: a lock filled two rows; the call cleared them and moved the
\* points above them down
NoFilledRowWitness ==
    /\ TickReturned
    /\ Cardinality(FullRows(last.locked_board)) >= 2
    /\ OccupiedCells(board) # {}

(***************************************************************************)
(* Properties of the fall under SpecLock.                                  *)
(***************************************************************************)
\* a call has returned BlockLocked
LockReturned == changes # <<>> /\ changes[1].kind = "BlockLocked"

LockedPointSinks(id, was, full, removed) ==
    IF id \in removed
    THEN /\ was[2] \in full
         /\ id \notin DOMAIN points_pos
         /\ id \notin GridIds(board)
    ELSE /\ was[2] \notin full
         /\ points_pos[id] = <<was[1], was[2] + Cardinality({r \in full : r > was[2]})>>
         /\ PointAt(board, points_pos[id]).id = id

\* C28: a call of tick leaves every point that was locked before it in its
\* column and never higher: the point moves down by the number of rows the
\* call cleared below it and by nothing else, and it leaves the board only
\* when the call returns PointRemoved for it.
LockedPointsOnlySink ==
    last.kind = "tick" =>
        \A id \in DOMAIN last.pre.points_pos :
            LockedPointSinks(id, last.pre.points_pos[id],
                             IF changes = <<>> THEN {}
                             ELSE FullRows(last.locked_board),
                             RemovedIds(changes))

\* C28 witness: a call locked the block, cleared rows and returned; a point
\* locked before the call came down by the number of rows cleared
LockedPointsSinkWitness ==
    /\ TickReturned
    /\ RemovedIds(changes) # {}
    /\ \E id \in DOMAIN last.pre.points_pos \cap DOMAIN points_pos :
          points_pos[id][2] = last.pre.points_pos[id][2]
                                 + Cardinality(FullRows(last.locked_board))

(***************************************************************************)
(* Further properties of the rotation under SpecRotate.                    *)
(***************************************************************************)
\* an anchor with room on every side for four rotations of any block
MidBoard == <<4, 10>>

\* rotate_block called n times in a row on an empty board, each call on the
\* layout and the anchor the call before returned; None when one is refused
RECURSIVE RotatedTimes(_, _, _)
RotatedTimes(block, block_pos, n) ==
    IF n = 0
    THEN [some |-> TRUE, points_pos |-> block.points_pos, block_pos |-> block_pos]
    ELSE LET r == rotate_block(block, block_pos, EmptyBoard)
         IN  IF r.some
             THEN RotatedTimes([block EXCEPT !.points_pos = r.points_pos],
                               r.block_pos, n - 1)
             ELSE None

\* C29: four accepted rotations in a row give every point of the block the
\* local position it had before them, for every type of block and from
\* every orientation, wherever the anchor ends up: for the four rotations
\* made so far when all were accepted, and for four more rotations of the
\* active block as it is now, made on an empty board.
FourRotationsRestoreLayout ==
    /\ (last.kind = "rotate" /\ ticks = 4 /\ last.all_accepted) =>
          active_block.points_pos = last.start.active_block.points_pos
    /\ RotatedTimes(active_block, MidBoard, 4).some
    /\ RotatedTimes(active_block, MidBoard, 4).points_pos = active_block.points_pos

\* C29 witness: four rotations of a T were all accepted; the first of them
\* changed the layout and the four together moved the anchor
FourRotationsWitness ==
    /\ last.kind = "rotate"
    /\ ticks = 4
    /\ last.all_accepted
    /\ active_block.block_type = "T"
    /\ active_block_pos # last.start.active_block_pos
    /\ RotatedTimes(active_block, MidBoard, 1).points_pos # active_block.points_pos

====
